---------------------------- MODULE Spec2Model ----------------------------
(***************************************************************************)
(* Model of src/uploadcare/uploadcare.py: the UploadCare client.  One      *)
(* client object, one public call in flight at a time (the code is         *)
(* sequential and blocking).  A call runs up to its next transport call in *)
(* one step; the transport's answers are the environment's steps.          *)
(*                                                                         *)
(* Time is counted in ticks; a tick is 1/TicksPerSecond of a second, so    *)
(* that a float `expire` can lie strictly between two whole seconds.  The   *)
(* clock is read on line 84 only; it advances between two calls and over   *)
(* the sleep of check_status.                                              *)
(***************************************************************************)
EXTENDS Integers, Sequences, FiniteSets, TLC

VARIABLES
    secret_key,   \* self.secret_key (fixed at construction)
    clock,        \* what time.time() returns, in ticks
    pc,           \* where the call in flight stands
    op,           \* the public method being executed
    args,         \* the arguments of the call in flight
    signing,      \* what _secure_expire_signature computed in this call
    request,      \* the request handed to requests.post by the public method
    calls,        \* transport invocations made by the call in flight
    res,          \* the response to `request`
    validated,    \* outcome of _check_response(res)
    polls,        \* requests.post calls made by check_status
    pending,      \* non-terminal status responses received by check_status
    status_res,   \* the last response of the status endpoint
    token,        \* the token posted to the status endpoint
    polled,       \* the tuple returned by check_status
    result,       \* the value returned by the public method
    err           \* the exception raised by the public method

vars == <<secret_key, clock, pc, op, args, signing, request, calls, res,
          validated, polls, pending, status_res, token, polled, result, err>>

-----------------------------------------------------------------------------
(* Bounds of the model *)

\* ticks in half a second (the resolution of the clock)
HalfSecond == 1
\* how far the clock may run past its initial reading, in ticks
MaxElapsed == 2
\* how many non-terminal answers the status endpoint gives to one call
MaxPending == 2

TicksPerSecond == HalfSecond + HalfSecond
StartClock == TicksPerSecond
MaxClock == StartClock + MaxElapsed

-----------------------------------------------------------------------------
(* Python values *)

None == "<None>"
EmptyDict == [k \in {} |-> ""]

\* dict.update(e) / {**d, **e}: the right operand wins on a shared key
Update(d, e) ==
    [k \in (DOMAIN d) \cup (DOMAIN e) |-> IF k \in DOMAIN e THEN e[k] ELSE d[k]]

NoExc == [type |-> "none", arg |-> ""]
Exc(t, a) == [type |-> t, arg |-> a]

\* truth value of self.secret_key: None and '' are false
KeyIsSet(k) == k \notin {None, ""}

\* an `expire` argument, tagged with its Python type
ExpireNone == [type |-> "NoneType"]
ExpireFloat(t) == [type |-> "float", ticks |-> t]
ExpireInt(s) == [type |-> "int", seconds |-> s]
ExpireStr(s) == [type |-> "str", text |-> s]
ExpireDatetime == [type |-> "datetime"]

\* truth value of `expire`: None, 0, 0.0 and '' are false
ExpireGiven(e) ==
    CASE e.type = "NoneType" -> FALSE
      [] e.type = "float" -> e.ticks # 0
      [] e.type = "int" -> e.seconds # 0
      [] e.type = "str" -> e.text # ""
      [] OTHER -> TRUE

-----------------------------------------------------------------------------
(* Client configuration *)

pub_key == "demopublickey"
api_url == "https://upload.uploadcare.com"
SecretKeys == {None, "", "s3cr3t"}

\* the names bound at module level, which a bare name in a method body
\* resolves to (a method body does not see the names of its class body)
ModuleGlobals ==
    {"hashlib", "hmac", "json", "mimetypes", "time", "Path", "Optional",
     "Union", "dateparser", "requests", "CaseInsensitiveDict",
     "InvalidDatetimeString", "MissingExpireKwarg", "MissingSecretKey",
     "UploadCare"}

-----------------------------------------------------------------------------
(* Signing *)

\* str(n) of an int
Str(n) == ToString(n)
\* str(store) of upload's store argument, an int or a str
StoreInt(n) == [type |-> "int", n |-> n]
StoreStr(t) == [type |-> "str", text |-> t]
PyStr(v) == IF v.type = "int" THEN Str(v.n) ELSE v.text

\* HMAC-SHA256 as an injective function of (key, message): the hex digest is
\* written as the pair it is computed from
generate_secure_signature(k, expire) ==
    "hmac-sha256(" \o k \o "," \o Str(expire) \o ")"

\* dateparser.parse followed by datetime.timetuple / time.mktime: the parser
\* is a table from the texts of the model to instants (seconds, half seconds),
\* timetuple drops the fraction of a second
DateTexts == {"1970-01-01 00:00:01", "1970-01-01 00:00:02.5", "1970-01-01 00:00:03"}
Unparseable == {"not a date"}
dateparser_parse(text) ==
    CASE text = "1970-01-01 00:00:01" -> [parsed |-> TRUE, sec |-> 1, half |-> 0]
      [] text = "1970-01-01 00:00:02.5" -> [parsed |-> TRUE, sec |-> 2, half |-> 1]
      [] text = "1970-01-01 00:00:03" -> [parsed |-> TRUE, sec |-> 3, half |-> 0]
      [] OTHER -> [parsed |-> FALSE]
mktime_timetuple(dt) == dt.sec * TicksPerSecond

\* int(x) of a float given in ticks, in seconds: truncation towards zero
IntOfTicks(t) ==
    IF t >= 0 THEN t \div TicksPerSecond ELSE -((-t) \div TicksPerSecond)

\* how far _secure_expire_signature got: not to line 84, rejected there, or
\* past it to the integer of line 87; now is the reading of the clock of
\* line 84 and instant the value compared with it, both in ticks
NotSigned == [stage |-> "none"]
Rejected(now, ticks) == [stage |-> "rejected", now |-> now, instant |-> ticks]
Resolved(now, ticks, int) ==
    [stage |-> "resolved", now |-> now, instant |-> ticks, expire |-> int]

\* UploadCare._secure_expire_signature(expire) run when time.time() = now:
\* exc is what it raises, value what it returns
_secure_expire_signature(expire, key, now) ==
    IF expire.type \notin {"float", "int", "str"}
    THEN [exc |-> Exc("ValueError", "expire value must be a float or a string"),
          value |-> EmptyDict, resolved |-> NotSigned]
    ELSE IF ~KeyIsSet(key)
    THEN [exc |-> Exc("MissingSecretKey", ""), value |-> EmptyDict,
          resolved |-> NotSigned]
    ELSE IF expire.type = "str" /\ ~dateparser_parse(expire.text).parsed
    THEN [exc |-> Exc("InvalidDatetimeString", None), value |-> EmptyDict,
          resolved |-> NotSigned]
    ELSE
      LET ticks == CASE expire.type = "str" ->
                          mktime_timetuple(dateparser_parse(expire.text))
                     [] expire.type = "int" -> expire.seconds * TicksPerSecond
                     [] OTHER -> expire.ticks
          int == IF expire.type = "int" THEN expire.seconds ELSE IntOfTicks(ticks)
      IN IF ticks - now < 0
         THEN [exc |-> Exc("ValueError", "Expire timestamp cannot be in the past!"),
               value |-> EmptyDict, resolved |-> Rejected(now, ticks)]
         ELSE IF "generate_secure_signature" \notin ModuleGlobals
         THEN [exc |-> Exc("NameError", "generate_secure_signature"),
               value |-> EmptyDict, resolved |-> Resolved(now, ticks, int)]
         ELSE [exc |-> NoExc,
               value |-> [expire |-> int,
                          signature |-> generate_secure_signature(key, int)],
               resolved |-> Resolved(now, ticks, int)]

-----------------------------------------------------------------------------
(* Inputs of upload: the strings of the model and what pathlib, the file   *)
(* system, str.startswith and mimetypes make of them                       *)

Inputs ==
    {"/home/u/photo.jpg", "http://example.com/pic.png", "notes.txt",
     "/home/u/uploads"}
ExistingFiles == {"/home/u/photo.jpg"}
ExistingDirs == {"/home/u/uploads"}

\* Path(_input).exists()
PathExists(s) == s \in ExistingFiles \cup ExistingDirs
\* Path(_input).name
PathName(s) ==
    CASE s = "/home/u/photo.jpg" -> "photo.jpg"
      [] s = "http://example.com/pic.png" -> "pic.png"
      [] s = "notes.txt" -> "notes.txt"
      [] s = "/home/u/uploads" -> "uploads"
\* _input.startswith('http')
StartsWithHttp(s) == s \in {"http://example.com/pic.png"}
\* mimetypes.guess_type(fname)[0]
GuessType(fname) ==
    CASE fname = "photo.jpg" -> "image/jpeg"
      [] fname = "pic.png" -> "image/png"
      [] OTHER -> None
\* open(_input, 'rb').read()
FileBytes(s) == "<bytes of " \o s \o ">"

\* UploadCare._input_identity
_input_identity(_input) ==
    IF PathExists(_input)
    THEN [exc |-> NoExc, is_url |-> FALSE, endpoint |-> api_url \o "/base/"]
    ELSE IF ~StartsWithHttp(_input)
    THEN [exc |-> Exc("ValueError", "Input is neither an existing file or a valid URL!"),
          is_url |-> TRUE, endpoint |-> api_url \o "/from_url/"]
    ELSE [exc |-> NoExc, is_url |-> TRUE, endpoint |-> api_url \o "/from_url/"]

-----------------------------------------------------------------------------
(* Request construction: each public method up to its requests.post         *)

NoRequest == [method |-> None]
NoFiles == EmptyDict
Failed(e, s) == [exc |-> e, request |-> NoRequest, signing |-> s]
Post(url, data, files, s) ==
    [exc |-> NoExc,
     request |-> [method |-> "POST", url |-> url, data |-> data, files |-> files],
     signing |-> s]

\* the fields metadata[k] of upload; metadata None and {} are both skipped
\* and both the empty dict here
MetadataFields(metadata) ==
    [f \in {"metadata[" \o k \o "]" : k \in DOMAIN metadata} |->
        LET k == CHOOSE k \in DOMAIN metadata : f = "metadata[" \o k \o "]"
        IN metadata[k]]

\* the fields files[n] of create_group, n counted from 0
FilesFields(files) ==
    [f \in {"files[" \o Str(n - 1) \o "]" : n \in DOMAIN files} |->
        LET n == CHOOSE n \in DOMAIN files : f = "files[" \o Str(n - 1) \o "]"
        IN files[n]]

\* UploadCare.upload, lines 166-195
upload_build(a, key, now) ==
    LET fname == PathName(a._input)
        id == _input_identity(a._input)
        pub_k == IF id.is_url THEN "pub_key" ELSE "UPLOADCARE_PUB_KEY"
        d0 == Update((pub_k :> pub_key) @@ ("UPLOADCARE_STORE" :> PyStr(a.store)),
                     a.kwargs)
        d1 == IF id.is_url THEN Update(d0, ("source_url" :> a._input)) ELSE d0
        d2 == Update(d1, MetadataFields(a.metadata))
        sig == _secure_expire_signature(a.expire, key, now)
        files == IF id.is_url THEN NoFiles
                 ELSE ("file" :> <<fname, FileBytes(a._input), GuessType(fname)>>)
    IN IF id.exc # NoExc THEN Failed(id.exc, NotSigned)
       ELSE IF ~id.is_url /\ a._input \in ExistingDirs
       THEN Failed(Exc("IsADirectoryError", a._input), NotSigned)
       ELSE IF ~ExpireGiven(a.expire) THEN Post(id.endpoint, d2, files, NotSigned)
       ELSE IF sig.exc # NoExc THEN Failed(sig.exc, sig.resolved)
       ELSE Post(id.endpoint, Update(d2, sig.value), files, sig.resolved)

\* upload without the check of lines 163-164
upload_request_unchecked(a, key, now) == upload_build(a, key, now)

\* UploadCare.upload, lines 163-195
upload_request(a, key, now) ==
    IF KeyIsSet(key) /\ ~ExpireGiven(a.expire)
    THEN Failed(Exc("MissingExpireKwarg", ""), NotSigned)
    ELSE upload_build(a, key, now)

\* UploadCare.start_multipart, lines 259-273
start_multipart_request(a, key, now) ==
    IF KeyIsSet(key) /\ ~ExpireGiven(a.expire)
    THEN Failed(Exc("MissingExpireKwarg", ""), NotSigned)
    ELSE
      LET d0 == Update(("UPLOADCARE_PUB_KEY" :> pub_key) @@
                       ("filename" :> a.filename) @@ ("size" :> a.size),
                       a.kwargs)
          sig == _secure_expire_signature(a.expire, key, now)
          url == api_url \o "/multipart/start/"
      IN IF ~ExpireGiven(a.expire) THEN Post(url, d0, NoFiles, NotSigned)
         ELSE IF sig.exc # NoExc THEN Failed(sig.exc, sig.resolved)
         ELSE Post(url, Update(d0, sig.value), NoFiles, sig.resolved)

\* UploadCare.create_group, lines 326-337
create_group_request(a, key, now) ==
    IF KeyIsSet(key) /\ ~ExpireGiven(a.expire)
    THEN Failed(Exc("MissingExpireKwarg", ""), NotSigned)
    ELSE
      LET d0 == Update(("pub_key" :> pub_key), a.kwargs)
          d1 == Update(d0, FilesFields(a.files))
          sig == _secure_expire_signature(a.expire, key, now)
          url == api_url \o "/group/"
      IN IF ~ExpireGiven(a.expire) THEN Post(url, d1, NoFiles, NotSigned)
         ELSE IF sig.exc # NoExc THEN Failed(sig.exc, sig.resolved)
         ELSE Post(url, Update(d1, sig.value), NoFiles, sig.resolved)

\* UploadCare.complete_multipart, lines 301-303
complete_multipart_request(a) ==
    Post(api_url \o "/multipart/complete/",
         ("UPLOADCARE_PUB_KEY" :> pub_key) @@ ("uuid" :> a.uuid), NoFiles,
         NotSigned)

\* UploadCare.group_info, lines 348-350
group_info_request(a) ==
    [exc |-> NoExc,
     request |-> [method |-> "GET", url |-> api_url \o "/group/info/",
                  data |-> ("pub_key" :> pub_key) @@ ("group_id" :> a.group_id),
                  files |-> NoFiles],
     signing |-> NotSigned]

-----------------------------------------------------------------------------
(* Responses of the transport *)

\* the text that _check_response looks for ('`signature` is required', with
\* quotes here where the source has backquotes)
Marker == "'signature' is required"
MarkerTexts == {Marker \o ".", "{\"error\": \"" \o Marker \o "\"}"}
\* '`signature` is required' in resp.text
ContainsMarker(text) == text \in MarkerTexts

\* the bodies the server sends: the raw text and what resp.json() makes of it
Body(text, json) == [text |-> text, json |-> json]
JsonBodies ==
    {Body("{\"file\": \"U1\"}", [file |-> "U1"]),
     Body("{\"token\": \"T1\"}", [token |-> "T1"]),
     Body("{\"filename\": \"a.png\", \"uuid\": \"U2\"}",
          [filename |-> "a.png", uuid |-> "U2"]),
     Body("{\"uuid\": \"U3\", \"parts\": []}", [uuid |-> "U3", parts |-> <<>>]),
     Body("{\"error\": \"" \o Marker \o "\"}", [error |-> Marker])}
ErrorBodies ==
    {Body(Marker \o ".", EmptyDict),
     Body("File is too large.", EmptyDict),
     Body("{\"file\": \"U1\"}", [file |-> "U1"]),
     Body("{\"error\": \"" \o Marker \o "\"}", [error |-> Marker])}

StatusOK == 200
ErrorStatuses == {201, 400}
Response(code, body) ==
    [status_code |-> code, text |-> body.text, json |-> body.json]
Responses ==
    {Response(StatusOK, b) : b \in JsonBodies} \cup
    {Response(c, b) : c \in ErrorStatuses, b \in ErrorBodies}

\* _check_response without the test of the secret key on line 93
_check_response_any_key(resp, key) ==
    IF resp.status_code # StatusOK
    THEN IF ContainsMarker(resp.text)
         THEN [exc |-> Exc("MissingSecretKey", ""), value |-> EmptyDict]
         ELSE [exc |-> Exc("ConnectionError", resp.text), value |-> EmptyDict]
    ELSE [exc |-> NoExc, value |-> resp.json]

\* UploadCare._check_response
_check_response(resp, key) ==
    IF resp.status_code # StatusOK
    THEN IF ContainsMarker(resp.text) /\ ~KeyIsSet(key)
         THEN [exc |-> Exc("MissingSecretKey", ""), value |-> EmptyDict]
         ELSE [exc |-> Exc("ConnectionError", resp.text), value |-> EmptyDict]
    ELSE [exc |-> NoExc, value |-> resp.json]

\* the answers of the status endpoint
StatusBodies ==
    {Body("{\"status\": \"success\", \"filename\": \"a.png\", \"uuid\": \"U1\"}",
          [status |-> "success", filename |-> "a.png", uuid |-> "U1"]),
     Body("{\"status\": \"success\", \"filename\": \"pic.png\", \"uuid\": \"UUID456\"}",
          [status |-> "success", filename |-> "pic.png", uuid |-> "UUID456"]),
     Body("{\"status\": \"error\", \"error\": \"Failed to download\"}",
          [status |-> "error", error |-> "Failed to download"]),
     Body("{\"status\": \"unknown\"}", [status |-> "unknown"]),
     Body("{\"status\": \"waiting\"}", [status |-> "waiting"]),
     Body("{\"status\": \"progress\", \"done\": 1}",
          [status |-> "progress", done |-> 1])}
NoStatus == Body("", EmptyDict)

\* check_status returning (uuid, filename)
check_status_swapped(s) ==
    LET status == s.json.status
    IN IF status = "success"
       THEN [next |-> "return", value |-> <<s.json.uuid, s.json.filename>>,
             exc |-> NoExc]
       ELSE IF status \in {"error", "unknown"}
       THEN [next |-> "raise", value |-> <<>>,
             exc |-> Exc("ConnectionError", s.text)]
       ELSE [next |-> "sleep", value |-> <<>>, exc |-> NoExc]

\* check_status with line 131 as `elif status == 'error'`
check_status_error_only(s) ==
    LET status == s.json.status
    IN IF status = "success"
       THEN [next |-> "return", value |-> <<s.json.filename, s.json.uuid>>,
             exc |-> NoExc]
       ELSE IF status = "error"
       THEN [next |-> "raise", value |-> <<>>,
             exc |-> Exc("ConnectionError", s.text)]
       ELSE [next |-> "sleep", value |-> <<>>, exc |-> NoExc]

\* check_status giving up on the first answer that is not success
check_status_no_retry(s) ==
    LET status == s.json.status
    IN IF status = "success"
       THEN [next |-> "return", value |-> <<s.json.filename, s.json.uuid>>,
             exc |-> NoExc]
       ELSE [next |-> "raise", value |-> <<>>,
             exc |-> Exc("ConnectionError", s.text)]

\* one iteration of the loop of UploadCare.check_status on the answer
\* status_res, and lines 135-136 when the loop is left
check_status(s) ==
    LET status == s.json.status
    IN IF status = "success"
       THEN [next |-> "return", value |-> <<s.json.filename, s.json.uuid>>,
             exc |-> NoExc]
       ELSE IF status \in {"error", "unknown"}
       THEN [next |-> "raise", value |-> <<>>,
             exc |-> Exc("ConnectionError", s.text)]
       ELSE [next |-> "sleep", value |-> <<>>, exc |-> NoExc]

CdnUrl(_uuid, fname) == "https://ucarecdn.com/" \o _uuid \o "/" \o fname

\* UploadCare.upload, lines 199-207, on the validated payload res_json:
\* what it returns or raises, or the token it hands to check_status
upload_result(a, res_json) ==
    LET fname == PathName(a._input)
        is_url == _input_identity(a._input).is_url
        get_token == IF "token" \in DOMAIN res_json THEN res_json.token ELSE None
    IN IF ~is_url
       THEN IF "file" \in DOMAIN res_json
            THEN [next |-> "return", value |-> CdnUrl(res_json.file, fname)]
            ELSE [next |-> "raise", exc |-> Exc("KeyError", "file")]
       ELSE IF get_token \notin {None, ""}
       THEN [next |-> "poll", token |-> get_token]
       ELSE IF "filename" \notin DOMAIN res_json
       THEN [next |-> "raise", exc |-> Exc("KeyError", "filename")]
       ELSE IF "uuid" \notin DOMAIN res_json
       THEN [next |-> "raise", exc |-> Exc("KeyError", "uuid")]
       ELSE [next |-> "return",
             value |-> CdnUrl(res_json.uuid, res_json.filename)]

\* upload unpacking the tuple of check_status as (_uuid, fname)
upload_polled_swapped(t) == CdnUrl(t[1], t[2])

\* UploadCare.upload, lines 203 and 207: the tuple of check_status is
\* unpacked as (fname, _uuid)
upload_polled(t) == CdnUrl(t[2], t[1])

-----------------------------------------------------------------------------
(* Arguments of the calls *)

ExpireInputs ==
    {ExpireNone, ExpireDatetime} \cup
    {ExpireFloat(t) : t \in (StartClock - 1)..(MaxClock + 1)} \cup
    {ExpireInt(n) : n \in 0..((MaxClock + TicksPerSecond) \div TicksPerSecond)} \cup
    {ExpireStr(t) : t \in Unparseable \cup DateTexts}

\* **kwargs: any names but those of the method's own parameters
KwargsInputs ==
    {EmptyDict,
     ("check_URL_duplicates" :> "1"),
     ("pub_key" :> "otherkey") @@ ("UPLOADCARE_PUB_KEY" :> "otherkey"),
     ("UPLOADCARE_STORE" :> "0") @@ ("files[0]" :> "U9"),
     ("source_url" :> "http://example.org/other.gif") @@ ("signature" :> "forged")}

\* store and metadata vary together, to keep the calls few
StoreMetadataInputs ==
    {<<StoreStr("auto"), EmptyDict>>, <<StoreInt(1), ("subsystem" :> "uploader")>>}

UploadArgs ==
    {[_input |-> i, store |-> sm[1], metadata |-> sm[2], expire |-> e,
      kwargs |-> k] :
        i \in Inputs, sm \in StoreMetadataInputs, e \in ExpireInputs,
        k \in KwargsInputs}
StartMultipartArgs ==
    [filename : {"big.bin"}, size : {10485760}, expire : ExpireInputs,
     kwargs : KwargsInputs]
CreateGroupArgs ==
    [files : {<<>>, <<"U1">>, <<"U1", "U2">>}, expire : ExpireInputs,
     kwargs : KwargsInputs]

CompleteMultipartArgs == [uuid : {"U3"}]
GroupInfoArgs == [group_id : {"G1~2"}]

-----------------------------------------------------------------------------
(* The state machine *)

NoArgs == EmptyDict
NoResponse == [received |-> FALSE]
NotValidated == [done |-> FALSE]
NotPolled == <<>>
NoResult == [returned |-> FALSE]
Returned(v) == [returned |-> TRUE, value |-> v]

Init ==
    /\ secret_key \in SecretKeys
    /\ clock = StartClock
    /\ pc = "idle"
    /\ op = "none"
    /\ args = NoArgs
    /\ signing = NotSigned
    /\ request = NoRequest
    /\ calls = 0
    /\ res = NoResponse
    /\ validated = NotValidated
    /\ polls = 0
    /\ pending = 0
    /\ status_res = NoStatus
    /\ token = None
    /\ polled = NotPolled
    /\ result = NoResult
    /\ err = NoExc

\* a public method is entered with arguments a and runs until it raises or
\* has handed the request b.request to the transport
Enter(name, a, b) ==
    /\ pc = "idle"
    /\ op' = name
    /\ args' = a
    /\ signing' = b.signing
    /\ request' = b.request
    /\ IF b.exc # NoExc
       THEN pc' = "raised" /\ err' = b.exc /\ calls' = calls
       ELSE pc' = "await" /\ err' = err /\ calls' = calls + 1
    /\ UNCHANGED <<secret_key, clock, res, validated, polls, pending,
                   status_res, token, polled, result>>

upload ==
    \E a \in UploadArgs : Enter("upload", a, upload_request(a, secret_key, clock))

start_multipart ==
    \E a \in StartMultipartArgs :
        Enter("start_multipart", a, start_multipart_request(a, secret_key, clock))

create_group ==
    \E a \in CreateGroupArgs :
        Enter("create_group", a, create_group_request(a, secret_key, clock))

complete_multipart ==
    \E a \in CompleteMultipartArgs :
        Enter("complete_multipart", a,
              complete_multipart_request(a))

group_info ==
    \E a \in GroupInfoArgs :
        Enter("group_info", a, group_info_request(a))

\* the transport answers the request of the public method; the method
\* validates the answer and runs on to its end or, for an upload from a URL
\* that is answered by a token, to the first poll of check_status
Respond ==
    /\ pc = "await"
    /\ \E r \in Responses :
        LET v == _check_response(r, secret_key)
            u == upload_result(args, v.value)
        IN /\ res' = r
           /\ validated' = [done |-> TRUE, exc |-> v.exc, value |-> v.value]
           /\ IF v.exc # NoExc
              THEN /\ pc' = "raised" /\ err' = v.exc
                   /\ UNCHANGED <<result, token, polls, calls>>
              ELSE IF op # "upload"
              THEN /\ pc' = "returned" /\ result' = Returned(v.value)
                   /\ UNCHANGED <<err, token, polls, calls>>
              ELSE IF u.next = "return"
              THEN /\ pc' = "returned" /\ result' = Returned(u.value)
                   /\ UNCHANGED <<err, token, polls, calls>>
              ELSE IF u.next = "raise"
              THEN /\ pc' = "raised" /\ err' = u.exc
                   /\ UNCHANGED <<result, token, polls, calls>>
              ELSE /\ pc' = "polling" /\ token' = u.token
                   /\ polls' = polls + 1 /\ calls' = calls + 1
                   /\ UNCHANGED <<result, err>>
    /\ UNCHANGED <<secret_key, clock, op, args, signing, request, pending,
                   status_res, polled>>

\* the status endpoint answers a poll: check_status returns, raises or goes
\* to sleep.  The endpoint gives at most MaxPending non-terminal answers to
\* one call, and none when the sleep would take the clock past MaxClock.
PollRespond ==
    /\ pc = "polling"
    /\ \E s \in StatusBodies :
        LET c == check_status(s)
        IN /\ c.next = "sleep" => pending < MaxPending /\ clock + HalfSecond <= MaxClock
           /\ status_res' = s
           /\ IF c.next = "return"
              THEN /\ pc' = "returned" /\ polled' = c.value
                   /\ result' = Returned(upload_polled(c.value))
                   /\ UNCHANGED <<err, pending>>
              ELSE IF c.next = "raise"
              THEN /\ pc' = "raised" /\ err' = c.exc
                   /\ UNCHANGED <<polled, result, pending>>
              ELSE /\ pc' = "sleeping" /\ pending' = pending + 1
                   /\ UNCHANGED <<polled, result, err>>
    /\ UNCHANGED <<secret_key, clock, op, args, signing, request, calls, res,
                   validated, polls, token>>

\* time.sleep(0.5) is over: the loop of check_status polls again
Wake ==
    /\ pc = "sleeping"
    /\ clock' = clock + HalfSecond
    /\ polls' = polls + 1
    /\ calls' = calls + 1
    /\ pc' = "polling"
    /\ UNCHANGED <<secret_key, op, args, signing, request, res, validated,
                   pending, status_res, token, polled, result, err>>

\* the caller has the result or the exception; the client is idle again
Finish ==
    /\ pc \in {"returned", "raised"}
    /\ pc' = "idle"
    /\ op' = "none"
    /\ args' = NoArgs
    /\ signing' = NotSigned
    /\ request' = NoRequest
    /\ calls' = 0
    /\ res' = NoResponse
    /\ validated' = NotValidated
    /\ polls' = 0
    /\ pending' = 0
    /\ status_res' = NoStatus
    /\ token' = None
    /\ polled' = NotPolled
    /\ result' = NoResult
    /\ err' = NoExc
    /\ UNCHANGED <<secret_key, clock>>

\* time passes between two calls
Tick ==
    /\ pc = "idle"
    /\ clock < MaxClock
    /\ clock' = clock + 1
    /\ UNCHANGED <<secret_key, pc, op, args, signing, request, calls, res,
                   validated, polls, pending, status_res, token, polled,
                   result, err>>

Next ==
    \/ upload
    \/ start_multipart
    \/ create_group
    \/ complete_multipart
    \/ group_info
    \/ Respond
    \/ PollRespond
    \/ Wake
    \/ Finish
    \/ Tick

Spec == Init /\ [][Next]_vars

\* the transport answers every request and a sleep ends
LiveSpec == Spec /\ WF_vars(Respond) /\ WF_vars(PollRespond) /\ WF_vars(Wake)

-----------------------------------------------------------------------------
(* Properties *)

Signing == {"upload", "start_multipart", "create_group"}
Sent == request.method # None
Polling == "status" \in DOMAIN status_res.json
Terminal == {"success", "error", "unknown"}

\* C1: on a client whose secret key is set, a call of upload, start_multipart
\* or create_group without an expire argument raises MissingExpireKwarg, and
\* the transport has not been invoked when it does.
C1_MissingExpireBeforeTransport ==
    (op \in Signing /\ KeyIsSet(secret_key) /\ args.expire.type = "NoneType")
        => /\ pc = "raised"
           /\ err = Exc("MissingExpireKwarg", "")
           /\ calls = 0
           /\ ~Sent
           /\ signing.stage = "none"

C1_Witness ==
    /\ op = "upload" /\ args._input = "http://example.com/pic.png"
    /\ KeyIsSet(secret_key) /\ args.expire.type = "NoneType"
    /\ pc = "raised" /\ err.type = "MissingExpireKwarg"

C3_PollerSuccess ==
    polled # NotPolled =>
        /\ pc = "returned"
        /\ Polling /\ status_res.json.status = "success"
        /\ polls = pending + 1
        /\ calls = polls + 1
        /\ polled = <<status_res.json.filename, status_res.json.uuid>>

C3_Witness ==
    /\ polled = <<"a.png", "U1">> /\ pending = 2 /\ polls = 3
    /\ pc = "returned"

\* C4: an answer with status error or unknown ends check_status: the call
\* raises ConnectionError with the raw answer, nothing is returned and no
\* poll follows (one poll when it is the first answer); a further poll is
\* made only after a non-terminal answer.
C4_PollerFailure ==
    /\ (Polling /\ status_res.json.status \in {"error", "unknown"}) =>
          /\ pc = "raised"
          /\ err = Exc("ConnectionError", status_res.text)
          /\ polled = NotPolled
          /\ ~result.returned
          /\ polls = pending + 1
    /\ (pc = "sleeping" \/ (pc = "polling" /\ polls > 1)) =>
          Polling /\ status_res.json.status \notin Terminal

C4_Witness ==
    /\ pc = "raised" /\ Polling /\ status_res.json.status = "error"
    /\ polls = 1 /\ pending = 0

\* C5: a successful upload returns https://ucarecdn.com/{uuid}/{filename}:
\* for a local file the uuid is the file field of the response, the filename
\* the base name of the input, and check_status is not called; for a URL
\* answered by a token they are those check_status returned for that token;
\* for a URL answered without a token they are those of the response and no
\* status poll is made.
C5_CdnUrl ==
    (op = "upload" /\ pc = "returned") =>
        IF request.url = api_url \o "/base/"
        THEN /\ result.value =
                  "https://ucarecdn.com/" \o res.json.file \o "/" \o PathName(args._input)
             /\ polls = 0 /\ polled = NotPolled
        ELSE IF "token" \in DOMAIN res.json
        THEN /\ polled # NotPolled /\ token = res.json.token /\ polls >= 1
             /\ result.value =
                  "https://ucarecdn.com/" \o polled[2] \o "/" \o polled[1]
        ELSE /\ result.value =
                  "https://ucarecdn.com/" \o res.json.uuid \o "/" \o res.json.filename
             /\ polls = 0 /\ polled = NotPolled

C5_Witness ==
    /\ op = "upload" /\ pc = "returned"
    /\ args._input = "http://example.com/pic.png" /\ token = "T1"
    /\ result.value = "https://ucarecdn.com/UUID456/pic.png"

\* C6: a call of upload, start_multipart or create_group with a valid future
\* expire on a client with a secret key reaches the transport, and the fields
\* of its request hold expire, the resolved integer, and signature, the
\* signature of the secret key and that integer.
C6_SignedRequestSent ==
    (op \in Signing /\ KeyIsSet(secret_key) /\ signing.stage = "resolved"
        /\ signing.instant > signing.now)
        => /\ Sent
           /\ calls >= 1
           /\ "expire" \in DOMAIN request.data
           /\ "signature" \in DOMAIN request.data
           /\ request.data["expire"] = signing.expire
           /\ request.data["signature"] =
                 generate_secure_signature(secret_key, signing.expire)

\* C7: the resolution of expire raises the validation error for every instant
\* that is not strictly after now, and for every instant strictly after now
\* it returns the instant truncated to whole seconds.
C7_ExpiryResolution ==
    signing.stage # "none" =>
        /\ (signing.instant <= signing.now) <=> (signing.stage = "rejected")
        /\ signing.stage = "rejected" =>
              pc = "raised" /\ err.type = "ValueError"
        /\ signing.stage = "resolved" =>
              /\ err = NoExc
              /\ signing.expire = signing.instant \div TicksPerSecond

C9_ReservedFields ==
    (op \in Signing /\ Sent) =>
        /\ op = "upload" =>
             /\ IF request.url = api_url \o "/from_url/"
                THEN /\ request.data["pub_key"] = pub_key
                     /\ request.data["source_url"] = args._input
                ELSE request.data["UPLOADCARE_PUB_KEY"] = pub_key
             /\ request.data["UPLOADCARE_STORE"] = PyStr(args.store)
        /\ op = "start_multipart" =>
             /\ request.data["UPLOADCARE_PUB_KEY"] = pub_key
             /\ request.data["filename"] = args.filename
             /\ request.data["size"] = args.size
        /\ op = "create_group" =>
             request.data["pub_key"] = pub_key
        /\ signing.stage = "resolved" =>
             /\ request.data["expire"] = signing.expire
             /\ request.data["signature"] =
                   generate_secure_signature(secret_key, signing.expire)

\* C10: check_status has no limit on its polls: after any number of
\* non-terminal answers it goes to sleep and polls again, and reaches no end
\* on such an answer; and when the status endpoint answers every poll and
\* at last with success, error or unknown, check_status ends.
C10_Unbounded ==
    /\ [][(pc = "polling" /\ pc' # "polling"
              /\ status_res'.json.status \notin Terminal)
            => (pc' = "sleeping" /\ err' = NoExc /\ ~result'.returned)]_vars
    /\ [][(pc = "sleeping" /\ pc' # "sleeping")
            => (pc' = "polling" /\ polls' = polls + 1)]_vars
    /\ (pc \in {"polling", "sleeping"}) ~> (pc \in {"returned", "raised"})

C10_Witness ==
    pc = "polling" /\ pending = MaxPending /\ polls = MaxPending + 1

=============================================================================
